---- MODULE Spec2Model ----
(***************************************************************************)
(* Model of filebrowser.go: a web front-end that lists the objects of a    *)
(* storage bucket, sorts them by update time, filters the videos and hands *)
(* out signed URLs.                                                        *)
(*                                                                         *)
(* Go strings are sequences of one-character strings, compared byte by     *)
(* byte through CharCode, so that suffix tests, escaping and the string    *)
(* comparison of timestamps are computed the way the Go code computes them.*)
(***************************************************************************)
EXTENDS Integers, Sequences, FiniteSets, TLC

VARIABLES
    StorageService,        \* Server.StorageService, set once by main
    StorageAccessOptions,  \* *Server.StorageAccessOptions, shared by all requests
    now,                   \* the wall clock read by time.Now(), in seconds
    conn,                  \* one record per connection served by net/http
    callArg,               \* argument of a helper called on its own
    callRet,               \* what that call returned
    callPc                 \* "ready" before the call, "returned" after it

vars == <<StorageService, StorageAccessOptions, now, conn, callArg, callRet, callPc>>

serverVars == <<StorageService, StorageAccessOptions, now, conn>>
callVars == <<callArg, callRet, callPc>>

----------------------------------------------------------------------------
(* Bounds of the model.                                                    *)

MaxNameLen == 4    \* longest object name drawn for the string helpers
MaxObjs == 3       \* longest object list drawn for the sort and the filter
TsWidth == 2       \* number of digits of an `updated` timestamp
MaxTime == 2       \* the clock stops ticking here
NumConns == 2      \* connections served concurrently

----------------------------------------------------------------------------
(* Bytes and strings.                                                      *)

Nil == "nil"                 \* a nil error
NilPtr == [nil |-> TRUE]     \* a nil pointer

\* The ASCII code of every character the model uses.
CharCode(c) ==
    CASE c = " " -> 32
      [] c = "%" -> 37
      [] c = "+" -> 43
      [] c = "." -> 46
      [] c = "/" -> 47
      [] c = "0" -> 48
      [] c = "1" -> 49
      [] c = "2" -> 50
      [] c = "3" -> 51
      [] c = "4" -> 52
      [] c = "5" -> 53
      [] c = "6" -> 54
      [] c = "7" -> 55
      [] c = "8" -> 56
      [] c = "9" -> 57
      [] c = "A" -> 65
      [] c = "B" -> 66
      [] c = "C" -> 67
      [] c = "D" -> 68
      [] c = "E" -> 69
      [] c = "F" -> 70
      [] c = "M" -> 77
      [] c = "P" -> 80
      [] c = "a" -> 97
      [] c = "b" -> 98
      [] c = "c" -> 99
      [] c = "d" -> 100
      [] c = "m" -> 109
      [] c = "p" -> 112
      [] c = "t" -> 116
      [] c = "x" -> 120

AllChars ==
    {" ", "%", "+", ".", "/", "0", "1", "2", "3", "4", "5", "6", "7", "8", "9",
     "A", "B", "C", "D", "E", "F", "M", "P", "a", "b", "c", "d", "m", "p", "t", "x"}

CharOf(n) == CHOOSE c \in AllChars : CharCode(c) = n

\* All strings over alphabet `cs` of length at most n.
StringsUpTo(cs, n) == UNION {[1..k -> cs] : k \in 0..n}

\* Go's comparison of two strings with >: bytewise, a proper prefix is smaller.
RECURSIVE StrGreater(_, _)
StrGreater(s, t) ==
    IF s = <<>> THEN FALSE
    ELSE IF t = <<>> THEN TRUE
    ELSE IF CharCode(Head(s)) # CharCode(Head(t))
         THEN CharCode(Head(s)) > CharCode(Head(t))
         ELSE StrGreater(Tail(s), Tail(t))

\* strings.HasSuffix(s, suffix)
HasSuffix(s, suffix) ==
    /\ Len(s) >= Len(suffix)
    /\ SubSeq(s, Len(s) - Len(suffix) + 1, Len(s)) = suffix

\* strings.TrimSuffix(s, suffix)
TrimSuffix(s, suffix) ==
    IF HasSuffix(s, suffix) THEN SubSeq(s, 1, Len(s) - Len(suffix)) ELSE s

\* strings.HasPrefix(s, prefix)
HasPrefix(s, prefix) ==
    /\ Len(s) >= Len(prefix)
    /\ SubSeq(s, 1, Len(prefix)) = prefix

\* strings.Replace(s, old, new, n) for a non-empty `old`: the first n
\* non-overlapping occurrences, every occurrence when n < 0.
RECURSIVE Replace(_, _, _, _)
Replace(s, old, new, n) ==
    IF s = <<>> \/ n = 0 THEN s
    ELSE IF HasPrefix(s, old)
         THEN new \o Replace(SubSeq(s, Len(old) + 1, Len(s)), old, new,
                             IF n < 0 THEN n ELSE n - 1)
         ELSE <<Head(s)>> \o Replace(Tail(s), old, new, n)

----------------------------------------------------------------------------
(* Collaborators outside the repository, modelled by their contracts.      *)

HexDigits == <<"0", "1", "2", "3", "4", "5", "6", "7", "8", "9", "A", "B", "C", "D", "E", "F">>

IsAlnum(c) ==
    \/ CharCode(c) >= 48 /\ CharCode(c) <= 57
    \/ CharCode(c) >= 65 /\ CharCode(c) <= 90
    \/ CharCode(c) >= 97 /\ CharCode(c) <= 122

\* net/url shouldEscape(c, encodeQueryComponent)
ShouldEscape(c) == ~(IsAlnum(c) \/ c \in {"-", "_", ".", "~"})

\* url.QueryEscape: a space becomes "+", every other escaped byte "%XX".
RECURSIVE QueryEscape(_)
QueryEscape(s) ==
    IF s = <<>> THEN <<>>
    ELSE LET c == Head(s)
             e == IF ~ShouldEscape(c) THEN <<c>>
                  ELSE IF c = " " THEN <<"+">>
                  ELSE <<"%", HexDigits[(CharCode(c) \div 16) + 1],
                              HexDigits[(CharCode(c) % 16) + 1]>>
         IN  e \o QueryEscape(Tail(s))

\* A URL string, by its parts; EmptyURL is the empty string.
EmptyURL == [bucket |-> "", name |-> <<>>, GoogleAccessId |-> "", Expires |-> 0]

\* cloud.SignedURL(bucket, name, opts): fails on a missing field or on a key
\* that does not parse, else returns the URL carrying opts.Expires.
SignedURL(bucket, name, opts) ==
    IF \/ opts.GoogleAccessID = ""
       \/ opts.PrivateKey # "validPem"
       \/ opts.Method = ""
       \/ opts.Expires = 0
    THEN [url |-> EmptyURL, err |-> "signing failed"]
    ELSE [url |-> [bucket |-> bucket, name |-> name,
                   GoogleAccessId |-> opts.GoogleAccessID, Expires |-> opts.Expires],
          err |-> Nil]

\* All orders of `items`, by position.
Orders(items) ==
    LET n == Len(items)
    IN  {[i \in 1..n |-> items[f[i]]] : f \in Permutations(1..n)}

----------------------------------------------------------------------------
(* The helpers of filebrowser.go.                                          *)

bucketName == "bucket.gmbuell.com"
SixHours == 21600          \* time.Second * 60 * 60 * 6
Mp4 == <<".", "m", "p", "4">>
Plus == <<"+">>
Pct20 == <<"%", "2", "0">>

\* ByUpdated.Less on two objects: a string comparison of the Updated fields.
Less_ascending(x, y) == StrGreater(y.Updated, x.Updated)
Less(x, y) == StrGreater(x.Updated, y.Updated)

\* sort.Sort(ByUpdated(items)): sort.Sort promises an order in which no
\* element is Less than one before it, and nothing about equal elements
\* ("not guaranteed to be stable"), so every such order is an outcome.
\* Go's implementations fall back to insertion sort on short slices (up to
\* 7 or 12 elements, by release) and reorder equal elements only on longer
\* ones; the short lists drawn here stand for lists of any length.
SortByUpdated_unsorted(items) == {items}
SortByUpdated(items) ==
    {p \in Orders(items) :
        \A i, j \in 1..Len(p) : i < j => ~Less(p[j], p[i])}

\* The loop of FilterVideos from index i on, videoObjects being built.
RECURSIVE FilterLoop_prepend(_, _, _)
FilterLoop_prepend(objectList, i, videoObjects) ==
    IF i > Len(objectList) THEN videoObjects
    ELSE IF HasSuffix(objectList[i].Name, Mp4)
         THEN FilterLoop_prepend(objectList, i + 1, <<objectList[i]>> \o videoObjects)
         ELSE FilterLoop_prepend(objectList, i + 1, videoObjects)

RECURSIVE FilterLoop(_, _, _)
FilterLoop(objectList, i, videoObjects) ==
    IF i > Len(objectList) THEN videoObjects
    ELSE IF HasSuffix(objectList[i].Name, Mp4)
         THEN FilterLoop(objectList, i + 1, Append(videoObjects, objectList[i]))
         ELSE FilterLoop(objectList, i + 1, videoObjects)

FilterVideos(objectList) == FilterLoop(objectList, 1, <<>>)

RECURSIVE TrimAll(_, _)
TrimAll(s, suffix) ==
    IF HasSuffix(s, suffix) THEN TrimAll(TrimSuffix(s, suffix), suffix) ELSE s

CleanupName_all(objectName) == TrimAll(objectName, Mp4)
CleanupName(objectName) == TrimSuffix(objectName, Mp4)

\* Lines 58-59 of SignUrl: the name handed to the signer.
EscapeName_first(objectName) == Replace(QueryEscape(objectName), Plus, Pct20, 1)
EscapeName(objectName) == Replace(QueryEscape(objectName), Plus, Pct20, -1)

----------------------------------------------------------------------------
(* Inputs of the helpers.                                                  *)

Digits == {"0", "1"}

\* `updated` as the storage service sends it: RFC 3339 in UTC with a fixed
\* number of digits, here TsWidth of them.
Timestamps == [1..TsWidth -> Digits]

\* The instant a timestamp denotes.
RECURSIVE TimeOf(_)
TimeOf(updated) ==
    IF updated = <<>> THEN 0
    ELSE TimeOf(SubSeq(updated, 1, Len(updated) - 1)) * 10
            + (CharCode(updated[Len(updated)]) - 48)

ObjNames ==
    {<<"a", ".", "m", "p", "4">>, <<"b", ".", "t", "x", "t">>,
     <<"c", ".", "M", "P", "4">>, <<"d", ".", "m", "p", "4">>}

\* Object lists as a bucket listing returns them: names are unique.
IsListing(l, k) ==
    \E ns \in {g \in [1..k -> ObjNames] : \A i, j \in 1..k : i # j => g[i] # g[j]} :
    \E ts \in [1..k -> Timestamps] :
        l = [i \in 1..k |-> [Name |-> ns[i], Updated |-> ts[i]]]

\* Object lists for the filter: any names, repeated or not.
FilterNames == ObjNames \cup {Mp4, <<"m", "p", "4">>}
FilterInputs ==
    UNION {[1..k -> [Name : FilterNames, Updated : {<<"0", "0">>}]] : k \in 0..MaxObjs}

NameChars == {"a", ".", "m", "p", "4"}
CleanupInputs ==
    LET base == StringsUpTo(NameChars, MaxNameLen)
    IN  base \cup {n \o Mp4 : n \in base}

EscapeChars == {"a", " ", "+", "/", "."}
EscapeInputs == StringsUpTo(EscapeChars, MaxNameLen)

----------------------------------------------------------------------------
(* The state of the server once main has built it (lines 143-169).         *)

Conns == 1..NumConns

\* signed and ret hold at most one value: those of the SignUrl call under way
\* or last finished.
IdleConn ==
    [pc |-> "idle", handler |-> "", objectName |-> <<>>, res |-> NilPtr, err |-> Nil,
     log |-> <<>>, template |-> "", data |-> NilPtr, todo |-> <<>>,
     signing |-> <<>>, callTime |-> 0, signed |-> <<>>, ret |-> <<>>, page |-> <<>>]

InitServer(key) ==
    /\ StorageService = "service"
    /\ StorageAccessOptions =
          [GoogleAccessID |-> "id", PrivateKey |-> key, Method |-> "GET", Expires |-> 0]
    /\ now = 0
    /\ conn = [c \in Conns |-> IdleConn]

InitCall(inputs) ==
    /\ callArg \in inputs
    /\ callRet = <<>>
    /\ callPc = "ready"

----------------------------------------------------------------------------
(* Each helper called on its own, on every input of its bounded domain.    *)

CallSort ==
    /\ callPc = "ready"
    /\ callRet' \in SortByUpdated(callArg)
    /\ callPc' = "returned"
    /\ UNCHANGED <<callArg, serverVars>>

InitSort ==
    /\ InitServer("validPem")
    /\ \E k \in 0..MaxObjs : IsListing(callArg, k)
    /\ callRet = <<>>
    /\ callPc = "ready"
NextSort == CallSort
SpecSort == InitSort /\ [][NextSort]_vars

CallFilterVideos ==
    /\ callPc = "ready"
    /\ callRet' = FilterVideos(callArg)
    /\ callPc' = "returned"
    /\ UNCHANGED <<callArg, serverVars>>

InitFilter == InitServer("validPem") /\ InitCall(FilterInputs)
NextFilter == CallFilterVideos
SpecFilter == InitFilter /\ [][NextFilter]_vars

CallCleanupName ==
    /\ callPc = "ready"
    /\ callRet' = CleanupName(callArg)
    /\ callPc' = "returned"
    /\ UNCHANGED <<callArg, serverVars>>

InitName == InitServer("validPem") /\ InitCall(CleanupInputs)
NextName == CallCleanupName
SpecName == InitName /\ [][NextName]_vars

CallEscapeName ==
    /\ callPc = "ready"
    /\ callRet' = EscapeName(callArg)
    /\ callPc' = "returned"
    /\ UNCHANGED <<callArg, serverVars>>

InitEscape == InitServer("validPem") /\ InitCall(EscapeInputs)
NextEscape == CallEscapeName
SpecEscape == InitEscape /\ [][NextEscape]_vars

----------------------------------------------------------------------------
(* Properties of the helpers.                                              *)

Returned == callPc = "returned"

\* Position of object o in list l (names are unique in a listing).
Pos(l, o) == CHOOSE k \in 1..Len(l) : l[k] = o

EndsWithMp4(n) ==
    /\ Len(n) >= 4
    /\ n[Len(n) - 3] = "." /\ n[Len(n) - 2] = "m" /\ n[Len(n) - 1] = "p" /\ n[Len(n)] = "4"

\* C3, as claimed: the sort is stable, two objects with equal `updated`
\* keep their input order in the output.
C3_Stable ==
    Returned =>
        \A i, j \in 1..Len(callArg) :
            (i < j /\ callArg[i].Updated = callArg[j].Updated)
                => Pos(callRet, callArg[i]) < Pos(callRet, callArg[j])

\* C3, amended: every object lands inside the block of output positions that
\* belongs to its `updated` value (after all newer objects, before all older
\* ones); the order inside a block of equal values is not fixed.
C3_TieBlocks ==
    Returned =>
        \A i \in 1..Len(callArg) :
            LET o == callArg[i]
                newer == Cardinality({k \in 1..Len(callArg) :
                            TimeOf(callArg[k].Updated) > TimeOf(o.Updated)})
                same == Cardinality({k \in 1..Len(callArg) :
                            TimeOf(callArg[k].Updated) = TimeOf(o.Updated)})
            IN  /\ \E k \in 1..Len(callRet) : callRet[k] = o
                /\ Pos(callRet, o) \in (newer + 1)..(newer + same)

\* A sort that returned two objects of equal `updated` in swapped order.
C3_Witness ==
    /\ Returned
    /\ \E i, j \in 1..Len(callArg) :
          /\ i < j
          /\ callArg[i].Updated = callArg[j].Updated
          /\ Pos(callRet, callArg[i]) > Pos(callRet, callArg[j])

\* C4: the sort returns a permutation of its input that is non-increasing in
\* the instant `updated` denotes.
C4_SortedPermutation ==
    Returned =>
        /\ Len(callRet) = Len(callArg)
        /\ \A o \in {callArg[i] : i \in 1..Len(callArg)} \cup {callRet[i] : i \in 1..Len(callRet)} :
              Cardinality({i \in 1..Len(callArg) : callArg[i] = o})
                = Cardinality({i \in 1..Len(callRet) : callRet[i] = o})
        /\ \A i \in 1..(Len(callRet) - 1) :
              TimeOf(callRet[i].Updated) >= TimeOf(callRet[i + 1].Updated)

\* The example of the claim: [a.mp4 (older), b.txt (newer)] became [b.txt, a.mp4].
C4_Witness ==
    /\ Returned
    /\ Len(callArg) = 2
    /\ callArg[1].Name = <<"a", ".", "m", "p", "4">>
    /\ callArg[2].Name = <<"b", ".", "t", "x", "t">>
    /\ TimeOf(callArg[1].Updated) < TimeOf(callArg[2].Updated)
    /\ callRet = <<callArg[2], callArg[1]>>

\* C5: FilterVideos returns exactly the elements whose name ends in ".mp4",
\* in their input order, and nothing else; it is never longer than its input.
C5_FilterSubsequence ==
    Returned =>
        LET S == {i \in 1..Len(callArg) : EndsWithMp4(callArg[i].Name)}
            kth(k) == CHOOSE i \in S : Cardinality({j \in S : j <= i}) = k
        IN  /\ Len(callRet) = Cardinality(S)
            /\ Len(callRet) <= Len(callArg)
            /\ \A k \in 1..Len(callRet) : callRet[k] = callArg[kth(k)]

\* A call that kept two different videos and dropped a non-video between them.
C5_Witness ==
    /\ Returned
    /\ Len(callArg) = 3
    /\ Len(callRet) = 2
    /\ callRet[1] # callRet[2]
    /\ ~EndsWithMp4(callArg[2].Name)

\* C6: CleanupName removes exactly one trailing ".mp4" and leaves a name
\* without that suffix unchanged.
C6_CleanupName ==
    Returned =>
        IF EndsWithMp4(callArg) THEN callRet \o Mp4 = callArg ELSE callRet = callArg

\* A name with two trailing suffixes lost only the last one.
C6_Witness ==
    /\ Returned
    /\ EndsWithMp4(callArg)
    /\ EndsWithMp4(callRet)
    /\ callRet \o Mp4 = callArg

HexValue(c) == (CHOOSE k \in 1..16 : HexDigits[k] = c) - 1

\* Percent-decoding as for a URL path: "%XX" is the byte XX, "+" is itself.
RECURSIVE PercentDecode(_)
PercentDecode(s) ==
    IF s = <<>> THEN <<>>
    ELSE IF Head(s) = "%" /\ Len(s) >= 3
         THEN <<CharOf(16 * HexValue(s[2]) + HexValue(s[3]))>>
                 \o PercentDecode(SubSeq(s, 4, Len(s)))
         ELSE <<Head(s)>> \o PercentDecode(Tail(s))

\* C9: the escaped name holds no literal "+" and no raw space, and decodes
\* back to the object name: each space travels as "%20", each "+" as "%2B".
C9_NoPlus ==
    Returned =>
        /\ \A i \in 1..Len(callRet) : callRet[i] # "+" /\ callRet[i] # " "
        /\ PercentDecode(callRet) = callArg

\* A name with two spaces and a literal plus was escaped.
C9_Witness ==
    /\ Returned
    /\ Cardinality({i \in 1..Len(callArg) : callArg[i] = " "}) >= 2
    /\ \E i \in 1..Len(callArg) : callArg[i] = "+"
    /\ \E i \in 1..(Len(callRet) - 2) : SubSeq(callRet, i, i + 2) = Pct20

----------------------------------------------------------------------------
(* The server: net/http runs a handler per connection, all concurrently,   *)
(* all on the one Server value main built.                                 *)

\* What the bucket holds.
Bucket ==
    <<[Name |-> <<"a", " ", "b", ".", "m", "p", "4">>, Updated |-> <<"0", "1">>],
      [Name |-> <<"b", ".", "t", "x", "t">>, Updated |-> <<"1", "0">>],
      [Name |-> <<"d", ".", "m", "p", "4">>, Updated |-> <<"0", "1">>]>>

MissingName == <<"m", ".", "m", "p", "4">>

\* Object names a client may ask /play/{objectName} for.
PlayNames == {Bucket[1].Name, MissingName}

\* Objects.List(bucketName).Do(): the listing, or (nil, err).
ListOutcomes ==
    {[res |-> [nil |-> FALSE, Items |-> Bucket], err |-> Nil],
     [res |-> NilPtr, err |-> "list failed"]}

\* Objects.Get(bucketName, objectName).Do(): the object, or (nil, err).
GetOutcomes(objectName) ==
    {[res |-> [nil |-> FALSE, Name |-> Bucket[i].Name, Updated |-> Bucket[i].Updated],
      err |-> Nil] : i \in {k \in 1..Len(Bucket) : Bucket[k].Name = objectName}}
        \cup {[res |-> NilPtr, err |-> "get failed"]}

\* index.html: {{range filterVideos .Items}} ... {{sign .Name}} ... {{end}}
IndexSigns(data) == [i \in 1..Len(FilterVideos(data.Items)) |-> FilterVideos(data.Items)[i].Name]

\* play.html: {{sign .Name}}; on a nil object the template stops with an
\* error, which ExecuteTemplate returns and the handler drops.
PlaySigns(data) == IF data.nil THEN <<>> ELSE <<data.Name>>

Tick ==
    /\ now < MaxTime
    /\ now' = now + 1
    /\ UNCHANGED <<StorageService, StorageAccessOptions, conn, callVars>>

\* RootHandler, lines 87-95: the listing call returns; a failure is logged.
RootHandlerList(c) ==
    /\ conn[c].pc = "idle"
    /\ \E o \in ListOutcomes :
          conn' = [conn EXCEPT ![c].pc = "root_sort",
                               ![c].handler = "RootHandler",
                               ![c].res = o.res,
                               ![c].err = o.err,
                               ![c].log = IF o.err # Nil
                                          THEN Append(@, "Failed getting video list.")
                                          ELSE @]
    /\ UNCHANGED <<StorageService, StorageAccessOptions, now, callVars>>

\* RootHandler, lines 97-99: res.Items is sorted in place and the listing
\* page rendered. Reading res.Items through a nil res panics; net/http
\* recovers the panic and drops the connection.
RootHandlerRender(c) ==
    /\ conn[c].pc = "root_sort"
    /\ IF conn[c].res.nil
       THEN conn' = [conn EXCEPT ![c].pc = "panicked"]
       ELSE \E sorted \in SortByUpdated(conn[c].res.Items) :
               LET res == [conn[c].res EXCEPT !.Items = sorted]
               IN  conn' = [conn EXCEPT ![c].res = res,
                                        ![c].template = "index.html",
                                        ![c].data = res,
                                        ![c].todo = IndexSigns(res),
                                        ![c].pc = IF IndexSigns(res) = <<>>
                                                  THEN "done" ELSE "render"]
    /\ UNCHANGED <<StorageService, StorageAccessOptions, now, callVars>>

\* PlayHandler, lines 103-114: the metadata call returns; a failure is logged.
PlayHandlerGet(c) ==
    /\ conn[c].pc = "idle"
    /\ \E objectName \in PlayNames :
       \E o \in GetOutcomes(objectName) :
          conn' = [conn EXCEPT ![c].pc = "play_render",
                               ![c].handler = "PlayHandler",
                               ![c].objectName = objectName,
                               ![c].res = o.res,
                               ![c].err = o.err,
                               ![c].log = IF o.err # Nil
                                          THEN Append(@, "Failed getting info for video.")
                                          ELSE @]
    /\ UNCHANGED <<StorageService, StorageAccessOptions, now, callVars>>

\* A handler that reads a field of res before rendering, as RootHandler does.
PlayHandlerRender_deref(c) ==
    /\ conn[c].pc = "play_render"
    /\ IF conn[c].res.nil
       THEN conn' = [conn EXCEPT ![c].pc = "panicked"]
       ELSE conn' = [conn EXCEPT ![c].template = "play.html",
                                 ![c].data = conn[c].res,
                                 ![c].todo = PlaySigns(conn[c].res),
                                 ![c].pc = "render"]
    /\ UNCHANGED <<StorageService, StorageAccessOptions, now, callVars>>

\* PlayHandler, line 116: the playback page is rendered with res as it is.
PlayHandlerRender(c) ==
    /\ conn[c].pc = "play_render"
    /\ conn' = [conn EXCEPT ![c].template = "play.html",
                            ![c].data = conn[c].res,
                            ![c].todo = PlaySigns(conn[c].res),
                            ![c].pc = IF PlaySigns(conn[c].res) = <<>>
                                      THEN "done" ELSE "render"]
    /\ UNCHANGED <<StorageService, StorageAccessOptions, now, callVars>>

\* SignUrl, line 57, called by the template for the next name: the shared
\* options get this call's expiry. The write is not synchronised.
SignUrlSetExpires(c) ==
    /\ conn[c].pc = "render"
    /\ StorageAccessOptions' = [StorageAccessOptions EXCEPT !.Expires = now + SixHours]
    /\ conn' = [conn EXCEPT ![c].pc = "signing",
                            ![c].signing = Head(conn[c].todo),
                            ![c].callTime = now,
                            ![c].signed = <<>>,
                            ![c].ret = <<>>]
    /\ UNCHANGED <<StorageService, now, callVars>>

\* SignUrl, lines 61-69: what the call returns for the signer's (getURL, err).
SignUrlReturn_inverted(signed) == IF signed.err # Nil THEN signed.url ELSE EmptyURL
SignUrlReturn(signed) == IF signed.err = Nil THEN signed.url ELSE EmptyURL

\* SignUrl, lines 58-69: the name is escaped and signed with the shared
\* options as they are now, a failure is logged, and the template goes on
\* with what the call returned. The read of Expires races with line 57 of
\* the other connections: it sees this call's write or any of theirs, as
\* the interleaving of the two steps decides.
SignUrlSign(c) ==
    /\ conn[c].pc = "signing"
    /\ LET signed == SignedURL(bucketName, EscapeName(conn[c].signing), StorageAccessOptions)
           ret == SignUrlReturn(signed)
       IN  conn' = [conn EXCEPT ![c].signed = <<signed>>,
                                ![c].ret = <<ret>>,
                                ![c].log = IF signed.err # Nil
                                           THEN Append(@, "Error signing URL.")
                                           ELSE @,
                                ![c].page = Append(@, [name |-> CleanupName(conn[c].signing),
                                                       playable |-> ret # EmptyURL]),
                                ![c].todo = Tail(@),
                                ![c].pc = IF Tail(conn[c].todo) = <<>>
                                          THEN "done" ELSE "render"]
    /\ UNCHANGED <<StorageService, StorageAccessOptions, now, callVars>>

\* main, lines 136-169: any readable file serves as the PEM file, so the
\* key may or may not parse when a URL is signed.
Init ==
    /\ \E key \in {"validPem", "badPem"} : InitServer(key)
    /\ callArg = <<>>
    /\ callRet = <<>>
    /\ callPc = "unused"

Next ==
    \/ Tick
    \/ \E c \in Conns : RootHandlerList(c)
    \/ \E c \in Conns : RootHandlerRender(c)
    \/ \E c \in Conns : PlayHandlerGet(c)
    \/ \E c \in Conns : PlayHandlerRender(c)
    \/ \E c \in Conns : SignUrlSetExpires(c)
    \/ \E c \in Conns : SignUrlSign(c)

Spec == Init /\ [][Next]_vars

----------------------------------------------------------------------------
(* Properties of the server.                                               *)

\* C1: after startup no step of any handler or helper writes the shared
\* signing options or the service client.
C1_SharedStateReadOnly ==
    [][/\ StorageAccessOptions' = StorageAccessOptions
       /\ StorageService' = StorageService]_vars

\* C2: a list request whose fetch failed is logged and goes on to render the
\* listing page; it is never aborted before rendering.
C2_ListFailureRenders ==
    \A c \in Conns :
        (conn[c].handler = "RootHandler" /\ conn[c].err # Nil) =>
            /\ conn[c].log # <<>>
            /\ conn[c].pc # "panicked"
            /\ conn[c].pc = "done" => conn[c].template = "index.html"

\* C7: when the signer fails, SignUrl returns the empty string, logs the
\* failure and the caller carries on; when it succeeds, SignUrl returns the
\* signer's URL unchanged.
C7_SignUrlResult ==
    \A c \in Conns :
        conn[c].signed # <<>> =>
            /\ conn[c].signed[1].err # Nil =>
                  /\ conn[c].ret = <<EmptyURL>>
                  /\ conn[c].log # <<>>
                  /\ conn[c].log[Len(conn[c].log)] = "Error signing URL."
                  /\ conn[c].pc \in {"render", "done"}
            /\ conn[c].signed[1].err = Nil =>
                  /\ conn[c].ret = <<conn[c].signed[1].url>>
                  /\ conn[c].ret # <<EmptyURL>>

\* A listing page finished although every signing on it failed.
C7_Witness ==
    \E c \in Conns :
        /\ conn[c].pc = "done"
        /\ conn[c].signed # <<>>
        /\ conn[c].signed[1].err # Nil
        /\ conn[c].ret = <<EmptyURL>>
        /\ Len(conn[c].page) = 2

\* C8: a play request whose fetch failed is logged and its page is rendered
\* with the result as returned; the handler never panics.
C8_PlayFailureRenders ==
    \A c \in Conns :
        (conn[c].handler = "PlayHandler" /\ conn[c].err # Nil) =>
            /\ conn[c].log = <<"Failed getting info for video.">>
            /\ conn[c].pc \in {"play_render", "done"}
            /\ conn[c].pc = "done" =>
                  /\ conn[c].template = "play.html"
                  /\ conn[c].data = conn[c].res

\* GET /play/m.mp4 for an object the bucket lacks was rendered to its end.
C8_Witness ==
    \E c \in Conns :
        /\ conn[c].handler = "PlayHandler"
        /\ conn[c].objectName = MissingName
        /\ conn[c].err # Nil
        /\ conn[c].res.nil
        /\ conn[c].pc = "done"
        /\ conn[c].template = "play.html"

\* C10: a URL returned by SignUrl expires six hours after the time that same
\* call read.
C10_ExpiresSixHoursAfterCall ==
    \A c \in Conns :
        (conn[c].ret # <<>> /\ conn[c].ret # <<EmptyURL>>) =>
            conn[c].ret[1].Expires = conn[c].callTime + SixHours

====
